---------------------------- MODULE Spec2Model ----------------------------
(***************************************************************************)
(* Model of the MusicalRaaga audio analysis code.                          *)
(*                                                                         *)
(*   utils/audioUtils.ts       detectPitch, estimateTempo,                 *)
(*                             calculateDynamicThreshold                   *)
(*   utils/emotionDetector.ts  analyzeAudio                                *)
(*   utils/storage.ts          saveRecording, deleteRecording,             *)
(*                             updateRecording, saveAnalysisResult,        *)
(*                             getRecordingById, getAllRecordings          *)
(*   components/Analyzer.tsx   handleSelectRecording, handleAnalyze,       *)
(*                             handleDeleteRecording                       *)
(*                                                                         *)
(* Numbers.  Samples are integers: one unit is a fixed power-of-two         *)
(* fraction of full scale (1/64, say), so that the samples, their products *)
(* and the sums of these are exact in the code's floating point.  Every    *)
(* comparison the code makes (between correlations, between energies,      *)
(* between an energy and the threshold) is homogeneous in the samples, so  *)
(* the unit itself does not matter.  Sample rates are kept small so        *)
(* that windowSize = floor(sampleRate * 0.02) and maxLag =                 *)
(* floor(sampleRate / 60) are small; the code reads the rate only through  *)
(* these two numbers and through the quotients sampleRate / peakIndex and  *)
(* windowSize / sampleRate.  Quotients are kept as exact fractions and     *)
(* rounded where the code rounds.  A JavaScript number that the code can   *)
(* produce is a record [kind, ...] with kind "finite", "Infinity" or "NaN".*)
(***************************************************************************)
EXTENDS Integers, Sequences, FiniteSets

VARIABLES
    audioBuffer,      \* the AudioBuffer handed to detectPitch / estimateTempo
    pitch,            \* value returned by detectPitch(audioBuffer), or NotCalled
    pitchLocals,      \* detectPitch's locals correlations, firstDropIndex and
                      \* peakIndex, once pitch is set
    energyProfile,    \* estimateTempo's local energyProfile, once tempo is set
    onsets,           \* estimateTempo's local onsets, once tempo is set
    tempoLocals,      \* estimateTempo's locals intervals, histogramBins,
                      \* mostCommonInterval and bpm (as it is before the range
                      \* correction), once tempo is set
    tempo,            \* value returned by estimateTempo(audioBuffer), or NotCalled
    audioBlob,        \* the Blob handed to analyzeAudio, or NoAudio
    analysisResults,  \* what analyzeAudio(audioBlob) resolved to, Pending, or NoResults
    localStorage,     \* the item stored under STORAGE_KEY, or NoItem
    now,              \* Date.now()
    revokedURLs,      \* the object URLs given to URL.revokeObjectURL
    analyzer,         \* the Analyzer component's state (recordings,
                      \* selectedRecording, analysisResults, isAnalyzing,
                      \* error), or NotMounted
    handleAnalyzeCall, \* the handleAnalyze invocation that is waiting at an
                      \* await, with the selectedRecording it closed over, or Idle
    page              \* the storage calls of a page: running, the executors
                      \* that have read the item and not yet written it, and
                      \* sequential, the list that the calls made so far give
                      \* when they are applied one after another

vars == <<audioBuffer, pitch, energyProfile, onsets, tempo, audioBlob, analysisResults,
          localStorage, now, revokedURLs, pitchLocals, tempoLocals,
          analyzer, handleAnalyzeCall, page>>

\* the variables of utils/storage.ts
storageVars == <<localStorage, now, revokedURLs>>

\* the variables of the analysis code
analysisVars == <<audioBuffer, pitch, energyProfile, onsets, tempo, audioBlob, analysisResults,
                  pitchLocals, tempoLocals>>

\* the variables of the Analyzer component
analyzerVars == <<analyzer, handleAnalyzeCall>>

\* values of the variables before the call that sets them
NotCalled == [kind |-> "NotCalled"]
NoAudio == [kind |-> "NoAudio"]
NoResults == [outcome |-> "NotCalled"]

\* localStorage.getItem(STORAGE_KEY) before anything was stored: null
NoItem == [present |-> FALSE]

\* the locals before the call that sets them
LocalsUnset ==
    /\ pitchLocals = NotCalled
    /\ tempoLocals = NotCalled

\* the Analyzer before it is mounted, and no handleAnalyze under way
NotMounted == [mounted |-> FALSE]
Idle == [await |-> "none"]

AnalyzerUnmounted ==
    /\ analyzer = NotMounted
    /\ handleAnalyzeCall = Idle

\* a page that has made no storage call
NoCalls == page = [running |-> <<>>, sequential |-> <<>>]

\* storage as the analysis code leaves it
StorageUntouched ==
    /\ localStorage = NoItem
    /\ now = 0
    /\ revokedURLs = {}

---------------------------------------------------------------------------
(* Bounds of the model. *)

\* longest buffer among the exhaustively enumerated ones
MaxLen == 7

\* sample values of the enumerated buffers
Samples == {0, 1, 2}

\* sample rates: windowSize 1, 2 and 6; maxLag 0, 1 and 5
Rates == {50, 100, 300}

---------------------------------------------------------------------------
(* JavaScript numbers. *)

Finite(n) == [kind |-> "finite", value |-> n]
Infinity == [kind |-> "Infinity"]
NaN == [kind |-> "NaN"]

Min(a, b) == IF a < b THEN a ELSE b
Max(a, b) == IF a > b THEN a ELSE b

\* Math.round(num / den) for num >= 0, den > 0: halves round up
RoundDiv(num, den) == (2 * num + den) \div (2 * den)

---------------------------------------------------------------------------
(* detectPitch *)

\* channelData[i] for a 0-based index i
At(x, i) == x[i + 1]

\* one pass of the outer loop: the correlation at one lag
Correlation(x, lag) ==
    LET bufferLength == Len(x)
        comparisonSamples == bufferLength \div 3
        acc[i \in 0..comparisonSamples] ==
            IF i = 0 THEN 0
            ELSE acc[i - 1] + (IF (i - 1) + lag < bufferLength
                               THEN At(x, i - 1) * At(x, (i - 1) + lag)
                               ELSE 0)
    IN  acc[comparisonSamples]

MaxLag(sampleRate) == sampleRate \div 60

\* the correlations array: entry lag + 1 is the correlation at lag
Correlations(x, sampleRate) ==
    [k \in 1..MaxLag(sampleRate) |-> Correlation(x, k - 1)]

\* the while loop: walks on while the next correlation is >= the current one
RECURSIVE FirstDropFrom(_, _)
FirstDropFrom(corr, firstDropIndex) ==
    IF firstDropIndex < Len(corr) - 1
       /\ At(corr, firstDropIndex + 1) >= At(corr, firstDropIndex)
    THEN FirstDropFrom(corr, firstDropIndex + 1)
    ELSE firstDropIndex

FirstDropIndex(corr) == FirstDropFrom(corr, 0)

\* the for loop over i = firstDropIndex + 1 .. correlations.length - 2
RECURSIVE PeakFrom(_, _, _)
PeakFrom(corr, i, peakIndex) ==
    IF i < Len(corr) - 1
    THEN PeakFrom(corr, i + 1, IF At(corr, i) > At(corr, peakIndex) THEN i ELSE peakIndex)
    ELSE peakIndex

\* the peak search starting at firstDropIndex itself
PeakIndexFromDrop(corr) ==
    LET firstDropIndex == FirstDropIndex(corr)
    IN  PeakFrom(corr, firstDropIndex, firstDropIndex)

PeakIndex(corr) ==
    LET firstDropIndex == FirstDropIndex(corr)
    IN  PeakFrom(corr, firstDropIndex + 1, firstDropIndex + 1)

\* sampleRate / peakIndex, then Math.round(f * 10) / 10: the value is kept in
\* tenths of a hertz
PitchOfPeak(sampleRate, peakIndex) ==
    IF peakIndex = 0
    THEN (IF sampleRate = 0 THEN NaN ELSE Infinity)
    ELSE Finite(RoundDiv(10 * sampleRate, peakIndex))

detectPitch(buf) ==
    PitchOfPeak(buf.sampleRate, PeakIndex(Correlations(buf.samples, buf.sampleRate)))

\* the locals of detectPitch when it returns
DetectPitchLocals(buf) ==
    LET corr == Correlations(buf.samples, buf.sampleRate)
    IN  [kind |-> "locals",
         correlations |-> corr,
         firstDropIndex |-> FirstDropIndex(corr),
         peakIndex |-> PeakIndex(corr)]

---------------------------------------------------------------------------
(* estimateTempo *)

\* Math.floor(sampleRate * 0.02)
WindowSize(sampleRate) == sampleRate \div 50

\* resolution of the modelled Math.sqrt: energies are kept in units of
\* 1 / SqrtScale of a sample unit
SqrtScale == 100

\* a power of two k with k * k * den > num * SqrtScale^2, found by doubling
RECURSIVE SqrtAbove(_, _, _)
SqrtAbove(num, den, k) ==
    IF k * k * den > num * SqrtScale * SqrtScale THEN k ELSE SqrtAbove(num, den, 2 * k)

\* largest k in lo..hi with k * k * den <= num * SqrtScale^2 (bisection)
RECURSIVE SqrtBetween(_, _, _, _)
SqrtBetween(num, den, lo, hi) ==
    IF lo >= hi THEN lo
    ELSE LET mid == (lo + hi + 1) \div 2
         IN  IF mid * mid * den <= num * SqrtScale * SqrtScale
             THEN SqrtBetween(num, den, mid, hi)
             ELSE SqrtBetween(num, den, lo, mid - 1)

\* Math.sqrt(sum / count) for sum >= 0 and count > 0, rounded down to the
\* resolution; sum / count < 0 or 0 / 0 gives NaN
Rms(sum, count) ==
    IF count = 0 \/ (sum < 0 /\ count > 0) \/ (sum > 0 /\ count < 0) THEN NaN
    ELSE IF sum = 0 THEN Finite(0)
    ELSE Finite(SqrtBetween(sum, count, 0, SqrtAbove(sum, count, 1)))

\* the inner loop: sum of channelData[j]^2 for j = i .. limit - 1
SumSquares(x, i, limit) ==
    LET acc[j \in i..limit] ==
            IF j = i THEN 0 ELSE acc[j - 1] + At(x, j - 1) * At(x, j - 1)
    IN  acc[limit]

\* the outer loop stopping before a last window that is not whole
RECURSIVE ProfileFromWholeWindows(_, _, _)
ProfileFromWholeWindows(x, windowSize, i) ==
    IF i + windowSize <= Len(x)
    THEN <<Rms(SumSquares(x, i, i + windowSize), windowSize)>>
             \o ProfileFromWholeWindows(x, windowSize, i + windowSize)
    ELSE <<>>

\* the outer loop from window start i on; windowSize > 0
RECURSIVE ProfileFrom(_, _, _)
ProfileFrom(x, windowSize, i) ==
    IF i < Len(x)
    THEN LET limit == Min(i + windowSize, Len(x))
         IN  <<Rms(SumSquares(x, i, limit), limit - i)>>
                 \o ProfileFrom(x, windowSize, i + windowSize)
    ELSE <<>>

EnergyProfile(x, windowSize) == ProfileFrom(x, windowSize, 0)

RECURSIVE SumOf(_)
SumOf(s) == IF s = <<>> THEN 0 ELSE Head(s) + SumOf(Tail(s))

Values(profile) == [k \in 1..Len(profile) |-> profile[k].value]

\* calculateDynamicThreshold.  The threshold mean + 1.5 * sqrt(variance) is
\* kept as the three integers that decide every comparison with it: the
\* number n of entries, their sum, and n^2 * variance, which is
\* n * (sum of squares) - sum^2 = the sum over all pairs i < j of
\* (entry i - entry j)^2.
calculateDynamicThreshold(profile) ==
    LET e == Values(profile)
        n == Len(e)
    IN  [n |-> n,
         sum |-> SumOf(e),
         spread |-> SumOf([i \in 1..n |->
                       SumOf([j \in 1..n |->
                           IF i < j THEN (e[i] - e[j]) * (e[i] - e[j]) ELSE 0])])]

\* v > threshold: with d = n * v - sum, v > mean + 1.5 * sqrt(variance) is
\* d > 1.5 * sqrt(spread), that is d > 0 and 4 * d^2 > 9 * spread
ExceedsThreshold(v, threshold) ==
    LET d == threshold.n * v - threshold.sum
    IN  d > 0 /\ 4 * d * d > 9 * threshold.spread

\* the test of the onset loop asking only that the window is not below its
\* left neighbour
IsOnsetNotBelowLeft(profile, threshold, i) ==
    /\ ExceedsThreshold(At(profile, i).value, threshold)
    /\ At(profile, i).value >= At(profile, i - 1).value

\* the test of the onset loop with >= for the left neighbour too
IsOnsetLeftNotStrict(profile, threshold, i) ==
    /\ ExceedsThreshold(At(profile, i).value, threshold)
    /\ At(profile, i).value >= At(profile, i - 1).value
    /\ At(profile, i).value >= At(profile, i + 1).value

\* the test of the onset loop at the 0-based index i
IsOnset(profile, threshold, i) ==
    /\ ExceedsThreshold(At(profile, i).value, threshold)
    /\ At(profile, i).value > At(profile, i - 1).value
    /\ At(profile, i).value >= At(profile, i + 1).value

\* the onset loop: i = 1 .. energyProfile.length - 2, pushing in that order
RECURSIVE OnsetsFrom(_, _, _)
OnsetsFrom(profile, threshold, i) ==
    IF i < Len(profile) - 1
    THEN (IF IsOnset(profile, threshold, i) THEN <<i>> ELSE <<>>)
             \o OnsetsFrom(profile, threshold, i + 1)
    ELSE <<>>

\* the onset loop pushing i + 1 for i
OnsetsOneBased(profile) ==
    LET ons == OnsetsFrom(profile, calculateDynamicThreshold(profile), 1)
    IN  [k \in 1..Len(ons) |-> ons[k] + 1]

Onsets(profile) == OnsetsFrom(profile, calculateDynamicThreshold(profile), 1)

Intervals(ons) == [k \in 1..(Len(ons) - 1) |-> ons[k + 1] - ons[k]]

\* Math.floor(interval / 2) * 2
NormalizedIntervalFloor(interval) == (interval \div 2) * 2

\* Math.round(interval / 2) * 2
NormalizedInterval(interval) == ((interval + 1) \div 2) * 2

\* histogramBins as the function from the keys present to their counts
HistogramBins(intervals) ==
    LET keys == { NormalizedInterval(intervals[k]) : k \in 1..Len(intervals) }
    IN  [b \in keys |->
            Cardinality({ k \in 1..Len(intervals) : NormalizedInterval(intervals[k]) = b })]

\* the scan where a count that equals the leader's replaces it
RECURSIVE ScanBinsLastWins(_, _, _, _)
ScanBinsLastWins(bins, keys, mostCommonInterval, maxCount) ==
    IF keys = {} THEN mostCommonInterval
    ELSE LET interval == CHOOSE b \in keys : \A c \in keys : b <= c
         IN  IF bins[interval] >= maxCount
             THEN ScanBinsLastWins(bins, keys \ {interval}, interval, bins[interval])
             ELSE ScanBinsLastWins(bins, keys \ {interval}, mostCommonInterval, maxCount)

\* Object.entries(histogramBins).forEach: integer keys come in ascending
\* order; a count replaces the leader only when it is strictly greater
RECURSIVE ScanBins(_, _, _, _)
ScanBins(bins, keys, mostCommonInterval, maxCount) ==
    IF keys = {} THEN mostCommonInterval
    ELSE LET interval == CHOOSE b \in keys : \A c \in keys : b <= c
         IN  IF bins[interval] > maxCount
             THEN ScanBins(bins, keys \ {interval}, interval, bins[interval])
             ELSE ScanBins(bins, keys \ {interval}, mostCommonInterval, maxCount)

MostCommonInterval(intervals) ==
    LET bins == HistogramBins(intervals)
    IN  ScanBins(bins, DOMAIN bins, 0, 0)

\* the range correction as two loops: halving while above 240, doubling
\* while below 60
RECURSIVE CorrectedBpmLoop(_, _)
CorrectedBpmLoop(num, den) ==
    IF num > 240 * den THEN CorrectedBpmLoop(num, 2 * den)
    ELSE IF num < 60 * den THEN CorrectedBpmLoop(2 * num, den)
    ELSE RoundDiv(num, den)

\* bpm = 60 / (mostCommonInterval * (windowSize / sampleRate)) as the fraction
\* num / den, halved once when above 240, then doubled once when below 60,
\* then Math.round
CorrectedBpm(num, den) ==
    LET den1 == IF num > 240 * den THEN 2 * den ELSE den
        num1 == IF num < 60 * den1 THEN 2 * num ELSE num
    IN  RoundDiv(num1, den1)

BpmOfInterval(interval, windowSize, sampleRate) ==
    IF sampleRate = 0 THEN NaN
    ELSE IF interval * windowSize = 0 THEN Infinity
    ELSE Finite(CorrectedBpm(60 * sampleRate, interval * windowSize))

\* bpm before the correction: Infinity, NaN, or the fraction num / den
RawBpm(interval, windowSize, sampleRate) ==
    IF sampleRate = 0 THEN NaN
    ELSE IF interval * windowSize = 0 THEN Infinity
    ELSE [kind |-> "finite", num |-> 60 * sampleRate, den |-> interval * windowSize]

\* a call that never returns: the energy loop does not advance
Diverges == [kind |-> "diverges"]

\* estimateTempo from the end of the energy loop on, with its locals
AfterEnergyLoop(profile, windowSize, sampleRate) ==
    LET ons == Onsets(profile)
        common == MostCommonInterval(Intervals(ons))
    IN  [energyProfile |-> profile,
         onsets |-> ons,
         locals |-> [kind |-> "locals",
                    intervals |-> Intervals(ons),
                    histogramBins |-> HistogramBins(Intervals(ons)),
                    mostCommonInterval |-> common,
                    bpm |-> RawBpm(common, windowSize, sampleRate)],
         tempo |-> BpmOfInterval(common, windowSize, sampleRate)]

\* estimateTempo with its locals energyProfile and onsets
estimateTempo(buf) ==
    LET windowSize == WindowSize(buf.sampleRate)
    IN  IF windowSize <= 0 /\ Len(buf.samples) > 0
        THEN [energyProfile |-> <<>>, onsets |-> <<>>, locals |-> Diverges,
              tempo |-> Diverges]
        ELSE AfterEnergyLoop(EnergyProfile(buf.samples, windowSize), windowSize,
                             buf.sampleRate)

---------------------------------------------------------------------------
(* The buffers the functions are applied to. *)

ShortBuffers ==
    { [samples |-> s, sampleRate |-> r] :
        s \in UNION { [1..n -> Samples] : n \in 1..MaxLen }, r \in Rates }

\* number of whole energy windows in half a second
HalfSecond(sampleRate) == (sampleRate \div 2) \div WindowSize(sampleRate)

\* a click train: the background level everywhere, except that the first
\* sample of every window first, first + HalfSecond, ... is a click; one
\* window follows the last click
ClickTrain(sampleRate, first, clicks, background, click) ==
    LET windowSize == WindowSize(sampleRate)
        windows == first + (clicks - 1) * HalfSecond(sampleRate) + 2
        IsClick(j) == /\ j % windowSize = 0
                      /\ (j \div windowSize) >= first
                      /\ ((j \div windowSize) - first) % HalfSecond(sampleRate) = 0
    IN  [samples |-> [k \in 1..(windows * windowSize) |->
                        IF IsClick(k - 1) THEN click ELSE background],
         sampleRate |-> sampleRate]

ClickTrains ==
    { ClickTrain(r, first, clicks, background, 3) :
        r \in Rates, first \in 1..2, clicks \in 2..3, background \in {0, 1} }

\* one second of a tone: the pattern repeated over sampleRate samples
Tone(pattern, sampleRate) ==
    [samples |-> [k \in 1..sampleRate |-> pattern[((k - 1) % Len(pattern)) + 1]],
     sampleRate |-> sampleRate]

\* tones whose period detectPitch searches: 2 <= period <= maxLag - 2
Tones ==
    { Tone(p, r) :
        p \in UNION { [1..P -> {0, 34, 35}] : P \in 2..3 },
        r \in { q \in Rates : MaxLag(q) >= 5 } }

\* spikes: windows silent windows at the sample rate, except that the
\* first sample of every window in positions is a spike
SpikeTrain(sampleRate, windows, positions) ==
    LET windowSize == WindowSize(sampleRate)
    IN  [samples |-> [k \in 1..(windows * windowSize) |->
                        IF (k - 1) % windowSize = 0 /\ ((k - 1) \div windowSize) \in positions
                        THEN 2 ELSE 0],
         sampleRate |-> sampleRate]

\* two to four spikes among 16 windows: up to three intervals, equal or not
UnevenTrains ==
    { SpikeTrain(50, 16, positions) :
        positions \in { q \in SUBSET (1..14) : Cardinality(q) \in 2..4 } }

\* two spikes more than a second apart
SlowTrains == { SpikeTrain(50, gap + 3, {1, 1 + gap}) : gap \in {51, 52, 55} }

Buffers == ShortBuffers \cup ClickTrains \cup Tones \cup UnevenTrains \cup SlowTrains

---------------------------------------------------------------------------
(* Specification of the numeric core: the functions applied to a buffer. *)

InitCore ==
    /\ audioBuffer \in Buffers
    /\ pitch = NotCalled
    /\ energyProfile = <<>>
    /\ onsets = <<>>
    /\ tempo = NotCalled
    /\ audioBlob = NoAudio
    /\ analysisResults = NoResults
    /\ LocalsUnset
    /\ StorageUntouched
    /\ AnalyzerUnmounted
    /\ NoCalls

\* detectPitch(audioBuffer) is called
DetectPitch ==
    /\ pitch = NotCalled
    /\ pitchLocals' = DetectPitchLocals(audioBuffer)
    /\ pitch' = detectPitch(audioBuffer)
    /\ UNCHANGED <<audioBuffer, energyProfile, onsets, tempo, audioBlob, analysisResults>>
    /\ UNCHANGED tempoLocals
    /\ UNCHANGED storageVars
    /\ UNCHANGED analyzerVars
    /\ UNCHANGED page

\* estimateTempo(audioBuffer) is called
EstimateTempo ==
    LET r == estimateTempo(audioBuffer)
    IN  /\ tempo = NotCalled
        /\ energyProfile' = r.energyProfile
        /\ onsets' = r.onsets
        /\ tempoLocals' = r.locals
        /\ tempo' = r.tempo
        /\ UNCHANGED <<audioBuffer, pitch, audioBlob, analysisResults>>
        /\ UNCHANGED pitchLocals
        /\ UNCHANGED storageVars
        /\ UNCHANGED analyzerVars
        /\ UNCHANGED page

NextCore == DetectPitch \/ EstimateTempo

SpecCore == InitCore /\ [][NextCore]_vars

---------------------------------------------------------------------------
(* The functions applied to buffers of every kind, with estimateTempo's    *)
(* energy loop taken one iteration at a time.                              *)

\* sample rates with windowSize 0, 0, 1, 1, 2 and 6 and maxLag 0, 0, 0, 1, 2
\* and 5
AnyRates == {1, 49, 59, 60, 120, 300}

\* the buffers, the empty one among them
AnyBuffers ==
    { [samples |-> s, sampleRate |-> r] :
        s \in UNION { [1..n -> Samples] : n \in 0..(MaxLen - 2) }, r \in AnyRates }

InitAnyRate ==
    /\ audioBuffer \in AnyBuffers
    /\ pitch = NotCalled
    /\ energyProfile = <<>>
    /\ onsets = <<>>
    /\ tempo = NotCalled
    /\ audioBlob = NoAudio
    /\ analysisResults = NoResults
    /\ LocalsUnset
    /\ StorageUntouched
    /\ AnalyzerUnmounted
    /\ NoCalls

\* estimateTempo's locals while the energy loop runs: i is the window start
InEnergyLoop(windowStart) == [kind |-> "energyLoop", i |-> windowStart]

\* estimateTempo(audioBuffer) is called: let i = 0
EstimateTempoCall ==
    /\ tempo = NotCalled
    /\ tempoLocals = NotCalled
    /\ tempoLocals' = InEnergyLoop(0)
    /\ UNCHANGED <<audioBuffer, pitch, pitchLocals, energyProfile, onsets, tempo,
                   audioBlob, analysisResults>>
    /\ UNCHANGED storageVars
    /\ UNCHANGED analyzerVars
    /\ UNCHANGED page

\* one iteration of the energy loop: the rms of the window is pushed and
\* i += windowSize.  The array is followed up to as many entries as the
\* buffer has samples, the most a loop that advances can push.
EnergyLoopStep ==
    /\ tempoLocals.kind = "energyLoop"
    /\ tempoLocals.i < Len(audioBuffer.samples)
    /\ LET channelData == audioBuffer.samples
           windowSize == WindowSize(audioBuffer.sampleRate)
           limit == Min(tempoLocals.i + windowSize, Len(channelData))
           rms == Rms(SumSquares(channelData, tempoLocals.i, limit), limit - tempoLocals.i)
       IN  /\ energyProfile' = IF Len(energyProfile) < Len(channelData)
                               THEN Append(energyProfile, rms)
                               ELSE energyProfile
           /\ tempoLocals' = InEnergyLoop(tempoLocals.i + windowSize)
    /\ UNCHANGED <<audioBuffer, pitch, pitchLocals, onsets, tempo, audioBlob, analysisResults>>
    /\ UNCHANGED storageVars
    /\ UNCHANGED analyzerVars
    /\ UNCHANGED page

\* i < channelData.length is false: the rest of estimateTempo runs and it
\* returns
EnergyLoopExit ==
    /\ tempoLocals.kind = "energyLoop"
    /\ tempoLocals.i >= Len(audioBuffer.samples)
    /\ LET r == AfterEnergyLoop(energyProfile, WindowSize(audioBuffer.sampleRate),
                                audioBuffer.sampleRate)
       IN  /\ onsets' = r.onsets
           /\ tempoLocals' = r.locals
           /\ tempo' = r.tempo
    /\ UNCHANGED <<audioBuffer, pitch, pitchLocals, energyProfile, audioBlob, analysisResults>>
    /\ UNCHANGED storageVars
    /\ UNCHANGED analyzerVars
    /\ UNCHANGED page

NextAnyRate == DetectPitch \/ EstimateTempoCall \/ EnergyLoopStep \/ EnergyLoopExit

SpecAnyRate == InitAnyRate /\ [][NextAnyRate]_vars

---------------------------------------------------------------------------
(* analyzeAudio (utils/emotionDetector.ts) *)

\* Math.random() takes the values k / RandSteps, k = 0 .. RandSteps - 1
RandSteps == 4

Randoms == 0..(RandSteps - 1)

\* Math.floor(Math.random() * m) for the draw k / RandSteps
FloorTimes(k, m) == (k * m) \div RandSteps

\* dynamicsMin and dynamicsMax, wrong lower clamp
DynamicsRangeClampedAt40(dynamicsAverage) ==
    [min |-> Max(40, dynamicsAverage - 20), max |-> Min(90, dynamicsAverage + 20)]

\* dynamicsMin and dynamicsMax
DynamicsRange(dynamicsAverage) ==
    [min |-> Max(10, dynamicsAverage - 20), max |-> Min(90, dynamicsAverage + 20)]

\* The record analyzeAudio resolves to, for the draws it makes.  The emotion
\* list, the note counts, the summary and the suggestions are left out.  The
\* blob is not read.
MockResult(blob, rTempo, rPitch, rVariance, rDynamics) ==
    LET tempoValue == 60 + FloorTimes(rTempo, 60)
        pitchAverage == 220 + FloorTimes(rPitch, 440)
        pitchVariance == FloorTimes(rVariance, 50)
        dynamicsAverage == 30 + FloorTimes(rDynamics, 40)
    IN  [outcome |-> "resolved",
         tempo |-> tempoValue,
         pitch |-> [average |-> pitchAverage, variance |-> pitchVariance],
         dynamics |-> [average |-> dynamicsAverage,
                       range |-> DynamicsRange(dynamicsAverage)]]

\* audio a caller can submit: the samples and the sample rate the blob
\* holds.  A malformed one has no samples (an empty blob) or a sample rate
\* that is not positive.
IsMalformed(b) == Len(b.samples) = 0 \/ b.sampleRate <= 0

MalformedBlobs ==
    { [samples |-> <<>>, sampleRate |-> 50],
      [samples |-> <<>>, sampleRate |-> 0],
      [samples |-> <<1, 0>>, sampleRate |-> 0] }

Blobs == MalformedBlobs \cup ClickTrains

Init ==
    /\ audioBuffer = NoAudio
    /\ pitch = NotCalled
    /\ energyProfile = <<>>
    /\ onsets = <<>>
    /\ tempo = NotCalled
    /\ audioBlob = NoAudio
    /\ analysisResults = NoResults
    /\ LocalsUnset
    /\ StorageUntouched
    /\ AnalyzerUnmounted
    /\ NoCalls

\* analyzeAudio(blob) is called and waits for its timer
Pending == [outcome |-> "pending"]

AnalyzeAudioCall ==
    \E blob \in Blobs :
        /\ analysisResults # Pending
        /\ audioBlob' = blob
        /\ analysisResults' = Pending
        /\ UNCHANGED <<audioBuffer, pitch, energyProfile, onsets, tempo>>
        /\ UNCHANGED <<pitchLocals, tempoLocals>>
        /\ UNCHANGED storageVars
        /\ UNCHANGED analyzerVars
        /\ UNCHANGED page

\* the timer fires: the rest of analyzeAudio runs and the promise resolves
AnalyzeAudioResolve ==
    \E rTempo \in Randoms, rPitch \in Randoms, rVariance \in Randoms, rDynamics \in Randoms :
        /\ analysisResults = Pending
        /\ analysisResults' = MockResult(audioBlob, rTempo, rPitch, rVariance, rDynamics)
        /\ UNCHANGED <<audioBuffer, pitch, energyProfile, onsets, tempo, audioBlob>>
        /\ UNCHANGED <<pitchLocals, tempoLocals>>
        /\ UNCHANGED storageVars
        /\ UNCHANGED analyzerVars
        /\ UNCHANGED page

Next == AnalyzeAudioCall \/ AnalyzeAudioResolve

Spec == Init /\ [][Next]_vars

---------------------------------------------------------------------------
(* utils/storage.ts.  A Recording is a record with the fields that are     *)
(* present; the item under STORAGE_KEY is kept as the array its JSON text  *)
(* parses to.  Every function runs its promise executor to the end before  *)
(* it returns, so a call is one step.                                      *)

\* most recordings the quota of localStorage has room for
MaxRecordings == 2

\* values of Date.now()
Times == {0, 1, 2}

\* values of Math.random().toString(36).substr(2, 9): nothing keeps two
\* calls from drawing the same one, and one value is enough for that
IdSuffixes == {"k3x9fz0qa"}

\* `rec_${Date.now()}_${Math.random().toString(36).substr(2, 9)}`
GeneratedId(time, suffix) == [prefix |-> "rec", time |-> time, suffix |-> suffix]

\* an id made by a caller: uuidv4()
Uuid == [prefix |-> "uuid", time |-> 0, suffix |-> "4a1c"]

Ids == { GeneratedId(t, x) : t \in Times, x \in IdSuffixes } \cup {Uuid}

\* a Blob, with the properties saveRecording reads
Blob1 == [size |-> 1, type |-> "audio/webm"]

\* the audioBlob argument left out
undefined == [undefined |-> TRUE]

null == [null |-> TRUE]

\* what JSON.stringify writes for a Blob: an object without properties
EmptyObject == [object |-> "{}"]

\* { ...a, ...b }
Spread(a, b) == [k \in DOMAIN a \cup DOMAIN b |-> IF k \in DOMAIN b THEN b[k] ELSE a[k]]

\* const { blob, ...rest } = rec
WithoutBlob(rec) == [k \in DOMAIN rec \ {"blob"} |-> rec[k]]

\* JSON.parse(JSON.stringify(recordings)): strings, finite numbers and plain
\* objects come back as they were; a Blob comes back as {}
JsonRoundTrip(recordings) ==
    [i \in 1..Len(recordings) |->
        [k \in DOMAIN recordings[i] |->
            IF k = "blob" THEN EmptyObject ELSE recordings[i][k]]]

\* localStorage.setItem(STORAGE_KEY, JSON.stringify(recordings)), as the
\* next getItem and JSON.parse read it
Item(recordings) == [present |-> TRUE, recordings |-> JsonRoundTrip(recordings)]

\* recordingsJson ? JSON.parse(recordingsJson) : []
Parsed(item) == IF item.present THEN item.recordings ELSE <<>>

\* recordings, written as they are
StorableKeepsBlob(recordings) == recordings

\* recordings.map(rec => { const { blob, ...storable } = rec; return storable; })
Storable(recordings) == [i \in 1..Len(recordings) |-> WithoutBlob(recordings[i])]

\* getAllRecordings(), as it resolves for the item stored
getAllRecordings(item) == Parsed(item)

\* recordings.findIndex(rec => rec.id === id), 1-based; 0 for -1
FindIndex(recordings, id) ==
    IF \E i \in 1..Len(recordings) : recordings[i].id = id
    THEN CHOOSE i \in 1..Len(recordings) :
            /\ recordings[i].id = id
            /\ \A j \in 1..(i - 1) : recordings[j].id # id
    ELSE 0

\* getRecordingById(id), as it resolves for the item stored
getRecordingById(item, id) ==
    IF ~item.present THEN null
    ELSE IF FindIndex(item.recordings, id) = 0 THEN null
    ELSE item.recordings[FindIndex(item.recordings, id)]

\* the recordings the pages save, with the audioBlob argument: one with the
\* required fields only and a blob (Omit<Recording, 'id'>), and one as the
\* pages build it, with an id of its own and the blob inside
SaveArguments ==
    { [recording |-> [name |-> "take 1", date |-> "5/11/2026"], audio |-> Blob1],
      [recording |-> [id |-> Uuid, name |-> "take 2", date |-> "6/11/2026",
                      blob |-> Blob1, duration |-> 12],
       audio |-> undefined] }

\* the updates updateRecording is given: a rename that carries another id,
\* and a blob
Updates ==
    { [id |-> Uuid, name |-> "renamed"],
      [blob |-> Blob1] }

\* the analysis results the Analyzer stores
Results == { MockResult(NoAudio, 0, 0, 0, 0) }

\* newRecording: { ...recording, id }, with the url, the size, the type and
\* the blob set when there is an audioBlob
NewRecording(recording, audio, id) ==
    IF audio # undefined
    THEN Spread(Spread(recording, [id |-> id]),
                [url |-> "blob:created", size |-> audio.size,
                 type |-> audio.type, blob |-> audio])
    ELSE Spread(recording, [id |-> id])

\* saveRecording(recording, audio) where Math.random() gives the suffix: the
\* promise resolves with GeneratedId(now, suffix).  The call is left out
\* when the quota has no room (setItem throws and the promise is rejected).
saveRecording(recording, audio, suffix) ==
    LET pushed == Append(Parsed(localStorage),
                         NewRecording(recording, audio, GeneratedId(now, suffix)))
    IN  /\ Len(pushed) <= MaxRecordings
        /\ UNCHANGED <<now, revokedURLs>>
        /\ localStorage' = Item(Storable(pushed))

\* recordings.splice(index, 1) at the first recording with the id
FilterFirstMatch(recordings, id) ==
    LET index == FindIndex(recordings, id)
    IN  IF index = 0 THEN recordings
        ELSE SubSeq(recordings, 1, index - 1) \o SubSeq(recordings, index + 1, Len(recordings))

\* recordings.filter(rec => rec.id !== id)
Filter(recordings, id) == SelectSeq(recordings, LAMBDA rec : rec.id # id)

\* url.startsWith('blob:')
BlobURLs == {"blob:created"}

\* deleteRecording(id): the object URL of the first recording with the id is
\* revoked, every recording with the id is filtered out
deleteRecording(id) ==
    LET recordings == Parsed(localStorage)
        found == FindIndex(recordings, id)
    IN  /\ UNCHANGED now
        /\ revokedURLs' =
               IF /\ found # 0
                  /\ "url" \in DOMAIN recordings[found]
                  /\ recordings[found].url \in BlobURLs
               THEN revokedURLs \cup {recordings[found].url}
               ELSE revokedURLs
        /\ localStorage' = IF ~localStorage.present THEN localStorage
                           ELSE Item(Filter(recordings, id))

\* { ...recording, id, ...updateWithoutBlob }: the id written before the
\* updates are spread
UpdatedRecordingIdFirst(recording, id, updates) ==
    LET merged == Spread(Spread(recording, [id |-> id]), WithoutBlob(updates))
    IN  IF "blob" \in DOMAIN updates
        THEN Spread(merged, [blob |-> updates.blob])
        ELSE merged

\* updatedRecording: { ...recording, ...updateWithoutBlob, id }, with the blob
\* of the updates put back
UpdatedRecording(recording, id, updates) ==
    LET merged == Spread(Spread(recording, WithoutBlob(updates)), [id |-> id])
    IN  IF "blob" \in DOMAIN updates
        THEN Spread(merged, [blob |-> updates.blob])
        ELSE merged

\* updateRecording(id, updates); the promise resolves with null or with
\* updatedRecording
updateRecording(id, updates) ==
    LET recordings == Parsed(localStorage)
        index == FindIndex(recordings, id)
        updatedRecording == UpdatedRecording(recordings[index], id, updates)
    IN  IF ~localStorage.present \/ index = 0
        THEN UNCHANGED <<localStorage, now, revokedURLs>>
        ELSE /\ UNCHANGED <<now, revokedURLs>>
             /\ localStorage' =
                    Item(Storable([recordings EXCEPT ![index] = updatedRecording]))

\* saveAnalysisResult(recordingId, results)
saveAnalysisResult(recordingId, results) ==
    updateRecording(recordingId, [analysisResults |-> results])

InitStorage ==
    /\ audioBuffer = NoAudio
    /\ pitch = NotCalled
    /\ energyProfile = <<>>
    /\ onsets = <<>>
    /\ tempo = NotCalled
    /\ audioBlob = NoAudio
    /\ analysisResults = NoResults
    /\ LocalsUnset
    /\ localStorage = NoItem
    /\ now = 0
    /\ revokedURLs = {}
    /\ AnalyzerUnmounted
    /\ NoCalls

\* the clock moves on
Tick ==
    /\ \E t \in Times : t > now /\ now' = t
    /\ UNCHANGED <<localStorage, revokedURLs>>
    /\ UNCHANGED analysisVars
    /\ UNCHANGED analyzerVars
    /\ UNCHANGED page

SaveRecording ==
    /\ \E a \in SaveArguments, suffix \in IdSuffixes :
           saveRecording(a.recording, a.audio, suffix)
    /\ UNCHANGED analysisVars
    /\ UNCHANGED analyzerVars
    /\ UNCHANGED page

DeleteRecording ==
    /\ \E id \in Ids : deleteRecording(id)
    /\ UNCHANGED analysisVars
    /\ UNCHANGED analyzerVars
    /\ UNCHANGED page

UpdateRecording ==
    /\ \E id \in Ids, updates \in Updates : updateRecording(id, updates)
    /\ UNCHANGED analysisVars
    /\ UNCHANGED analyzerVars
    /\ UNCHANGED page

SaveAnalysisResult ==
    /\ \E recordingId \in Ids, results \in Results : saveAnalysisResult(recordingId, results)
    /\ UNCHANGED analysisVars
    /\ UNCHANGED analyzerVars
    /\ UNCHANGED page

NextStorage ==
    Tick \/ SaveRecording \/ DeleteRecording \/ UpdateRecording \/ SaveAnalysisResult

SpecStorage == InitStorage /\ [][NextStorage]_vars

---------------------------------------------------------------------------
(* Calls of utils/storage.ts that a page makes without awaiting them.  An  *)
(* executor is taken in two steps, its read of the item (getItem and       *)
(* JSON.parse) and the rest of it (to setItem and resolve).                *)

\* the calls a page makes at the time given
Calls(time) ==
    { [op |-> "saveRecording", recording |-> a.recording, audio |-> a.audio,
       id |-> GeneratedId(time, suffix)] : a \in SaveArguments, suffix \in IdSuffixes }
    \cup { [op |-> "deleteRecording", id |-> id] : id \in Ids }
    \cup { [op |-> "updateRecording", id |-> id, updates |-> updates] :
             id \in Ids,
             updates \in Updates \cup { [analysisResults |-> results] : results \in Results } }

\* whether the executor of the call gets to setItem when it has read the item
Writes(call, item) ==
    CASE call.op = "saveRecording" -> TRUE
      [] call.op = "deleteRecording" -> item.present
      [] call.op = "updateRecording" ->
             item.present /\ FindIndex(item.recordings, call.id) # 0

\* the array the executor of the call hands to JSON.stringify when it has
\* read recordings
Written(call, recordings) ==
    CASE call.op = "saveRecording" ->
             Storable(Append(recordings,
                             NewRecording(call.recording, call.audio, call.id)))
      [] call.op = "deleteRecording" -> Filter(recordings, call.id)
      [] call.op = "updateRecording" ->
             LET index == FindIndex(recordings, call.id)
             IN  IF index = 0 THEN recordings
                 ELSE Storable([recordings EXCEPT
                          ![index] = UpdatedRecording(recordings[index], call.id,
                                                      call.updates)])

\* what getAllRecordings resolves to once the call is applied to the stored
\* recordings given
Applied(call, recordings) ==
    IF Writes(call, Item(recordings))
    THEN JsonRoundTrip(Written(call, recordings))
    ELSE recordings

\* a call can be made while executors are between their read and their
\* write, as it could if they awaited in between
CanCallBetweenReadAndWrite(running) == Len(running) < 2

\* a call is made when no executor is running: the function
\* (resolve, reject) => { ... } given to new Promise runs to its end, without
\* an await, before the call returns
CanCall(running) == running = <<>>

InitCalls ==
    /\ audioBuffer = NoAudio
    /\ pitch = NotCalled
    /\ energyProfile = <<>>
    /\ onsets = <<>>
    /\ tempo = NotCalled
    /\ audioBlob = NoAudio
    /\ analysisResults = NoResults
    /\ LocalsUnset
    /\ StorageUntouched
    /\ AnalyzerUnmounted
    /\ NoCalls

\* the page calls saveRecording, deleteRecording or updateRecording and does
\* not await it: the executor starts and reads the item
Call ==
    /\ CanCall(page.running)
    /\ \E call \in Calls(now) :
           /\ call.op = "saveRecording" => Len(page.sequential) < MaxRecordings
           /\ page' = [running |-> Append(page.running, [call |-> call, item |-> localStorage]),
                       sequential |-> Applied(call, page.sequential)]
    /\ UNCHANGED storageVars
    /\ UNCHANGED analysisVars
    /\ UNCHANGED analyzerVars

\* an executor runs on from its read: deleteRecording revokes the object
\* URL, the array is written, and the promise is settled
Write ==
    /\ \E k \in 1..Len(page.running) :
           LET call == page.running[k].call
               item == page.running[k].item
               found == FindIndex(Parsed(item), call.id)
           IN  /\ localStorage' = IF Writes(call, item)
                                  THEN Item(Written(call, Parsed(item)))
                                  ELSE localStorage
               /\ revokedURLs' =
                      IF /\ call.op = "deleteRecording"
                         /\ found # 0
                         /\ "url" \in DOMAIN Parsed(item)[found]
                         /\ Parsed(item)[found].url \in BlobURLs
                      THEN revokedURLs \cup {Parsed(item)[found].url}
                      ELSE revokedURLs
               /\ page' = [page EXCEPT !.running =
                              SubSeq(page.running, 1, k - 1)
                                  \o SubSeq(page.running, k + 1, Len(page.running))]
    /\ UNCHANGED now
    /\ UNCHANGED analysisVars
    /\ UNCHANGED analyzerVars

NextCalls == Tick \/ Call \/ Write

SpecCalls == InitCalls /\ [][NextCalls]_vars

---------------------------------------------------------------------------
(* The Analyzer component (components/Analyzer.tsx).  A handler runs to    *)
(* its first await in one step; what follows an await is a step of its    *)
(* own, taken when the promise settles.  The promises of utils/storage.ts *)
(* are settled when they are returned, so nothing comes between such a    *)
(* call and the code after its await.                                     *)

\* setError(...)
ErrorMessage(text) == [message |-> text]

\* the lists the pages have stored when the Analyzer is mounted: one save
\* after another, each at its own time
StoredLists ==
    { Storable([i \in 1..n |-> NewRecording(arguments[i].recording, arguments[i].audio,
                                            GeneratedId(i - 1, suffix))]) :
        <<n, arguments, suffix>> \in
            { <<n, arguments, suffix>> \in
                  (1..MaxRecordings) \X [1..MaxRecordings -> SaveArguments] \X IdSuffixes :
                  \A i \in (n + 1)..MaxRecordings :
                      arguments[i] = arguments[1] } }

\* the state of the component once its effects have run: the recordings
\* are loaded, and the recording of the id in the URL, if there is one, is
\* selected.  The field analysed is not in the code: it records the
\* recording whose audio analysisResults was computed from.
Mounted(list, selected) ==
    [recordings |-> list,
     selectedRecording |-> selected,
     analysisResults |-> null,
     analysed |-> null,
     isAnalyzing |-> FALSE,
     error |-> null]

\* as the wait of handleAnalyze at an await, with the recording it closed over
Awaiting(promise, recording) == [await |-> promise, selectedRecording |-> recording]

\* finally { } that leaves isAnalyzing as it is
FinallyStillAnalyzing(state) == state

\* finally { setIsAnalyzing(false); }
Finally(state) == [state EXCEPT !.isAnalyzing = FALSE]

\* catch (err) { setError('Failed to analyze audio. Please try again.'); }
Catch(state) == [state EXCEPT !.error = ErrorMessage("Failed to analyze audio. Please try again.")]

InitAnalyzer ==
    /\ audioBuffer = NoAudio
    /\ pitch = NotCalled
    /\ energyProfile = <<>>
    /\ onsets = <<>>
    /\ tempo = NotCalled
    /\ audioBlob = NoAudio
    /\ analysisResults = NoResults
    /\ LocalsUnset
    /\ now = 0
    /\ revokedURLs = {}
    /\ \E list \in StoredLists :
           /\ localStorage = Item(list)
           /\ \E selected \in {null} \cup { getAllRecordings(Item(list))[i] : i \in 1..Len(list) } :
                  analyzer = Mounted(getAllRecordings(Item(list)), selected)
    /\ handleAnalyzeCall = Idle
    /\ NoCalls

\* a click on a recording of the list
HandleSelectRecording ==
    /\ \E i \in 1..Len(analyzer.recordings) :
           analyzer' = [analyzer EXCEPT !.selectedRecording = analyzer.recordings[i],
                                        !.analysisResults = null,
                                        !.analysed = null,
                                        !.error = null]
    /\ UNCHANGED handleAnalyzeCall
    /\ UNCHANGED storageVars
    /\ UNCHANGED analysisVars
    /\ UNCHANGED page

\* a click on Analyze, which is disabled while isAnalyzing: handleAnalyze up
\* to its first await, or to its return when there is no audio
HandleAnalyze ==
    /\ analyzer.recordings # <<>>
    /\ analyzer.selectedRecording # null
    /\ ~analyzer.isAnalyzing
    /\ handleAnalyzeCall = Idle
    /\ LET selectedRecording == analyzer.selectedRecording
           started == [analyzer EXCEPT !.isAnalyzing = TRUE, !.error = null]
       IN  IF "blob" \in DOMAIN selectedRecording
           THEN /\ analyzer' = started
                /\ handleAnalyzeCall' = Awaiting("analyzeAudio", selectedRecording)
           ELSE IF "url" \in DOMAIN selectedRecording
           THEN /\ analyzer' = started
                /\ handleAnalyzeCall' = Awaiting("fetch", selectedRecording)
           ELSE /\ analyzer' =
                       Finally([started EXCEPT
                           !.error = ErrorMessage("No audio data available for analysis.")])
                /\ handleAnalyzeCall' = Idle
    /\ UNCHANGED storageVars
    /\ UNCHANGED analysisVars
    /\ UNCHANGED page

\* fetch(selectedRecording.url) resolves: response.blob() is awaited
FetchResolves ==
    /\ handleAnalyzeCall # Idle
    /\ handleAnalyzeCall.await = "fetch"
    /\ handleAnalyzeCall' = Awaiting("blob", handleAnalyzeCall.selectedRecording)
    /\ UNCHANGED analyzer
    /\ UNCHANGED storageVars
    /\ UNCHANGED analysisVars
    /\ UNCHANGED page

\* fetch(selectedRecording.url) rejects (the object URL is revoked, or is
\* one of an earlier session): catch and finally
FetchRejects ==
    /\ handleAnalyzeCall # Idle
    /\ handleAnalyzeCall.await = "fetch"
    /\ analyzer' = Finally(Catch(analyzer))
    /\ handleAnalyzeCall' = Idle
    /\ UNCHANGED storageVars
    /\ UNCHANGED analysisVars
    /\ UNCHANGED page

\* response.blob() resolves: analyzeAudio(audioBlob) is called and awaited
BlobResolves ==
    /\ handleAnalyzeCall # Idle
    /\ handleAnalyzeCall.await = "blob"
    /\ handleAnalyzeCall' = Awaiting("analyzeAudio", handleAnalyzeCall.selectedRecording)
    /\ UNCHANGED analyzer
    /\ UNCHANGED storageVars
    /\ UNCHANGED analysisVars
    /\ UNCHANGED page

\* analyzeAudio's timer fires and its promise resolves: setAnalysisResults,
\* then updateRecording with the id handleAnalyze closed over, which
\* resolves, or rejects when setItem throws for want of room; then finally
AnalyzeAudioResolves ==
    /\ handleAnalyzeCall # Idle
    /\ handleAnalyzeCall.await = "analyzeAudio"
    /\ \E results \in Results, room \in BOOLEAN :
           LET id == handleAnalyzeCall.selectedRecording.id
               set == [analyzer EXCEPT !.analysisResults = results, !.analysed = id]
           IN  IF room
               THEN /\ updateRecording(id, [analysisResults |-> results])
                    /\ analyzer' = Finally(set)
               ELSE /\ FindIndex(Parsed(localStorage), id) # 0
                    /\ UNCHANGED storageVars
                    /\ analyzer' = Finally(Catch(set))
    /\ handleAnalyzeCall' = Idle
    /\ UNCHANGED analysisVars
    /\ UNCHANGED page

\* a click on the delete button of a recording, confirmed: deleteRecording,
\* the selection and the results are reset when the recording is the
\* selected one, and the list is loaded again
HandleDeleteRecording ==
    /\ \E i \in 1..Len(analyzer.recordings) :
           LET recordingId == analyzer.recordings[i].id
               reset == IF /\ analyzer.selectedRecording # null
                           /\ analyzer.selectedRecording.id = recordingId
                        THEN [analyzer EXCEPT !.selectedRecording = null,
                                              !.analysisResults = null,
                                              !.analysed = null]
                        ELSE analyzer
           IN  /\ deleteRecording(recordingId)
               /\ analyzer' = [reset EXCEPT !.recordings = getAllRecordings(localStorage')]
    /\ UNCHANGED handleAnalyzeCall
    /\ UNCHANGED analysisVars
    /\ UNCHANGED page

NextAnalyzer ==
    \/ HandleSelectRecording
    \/ HandleAnalyze
    \/ FetchResolves
    \/ FetchRejects
    \/ BlobResolves
    \/ AnalyzeAudioResolves
    \/ HandleDeleteRecording

SpecAnalyzer == InitAnalyzer /\ [][NextAnalyzer]_vars

\* Every promise handleAnalyze awaits settles: fetch of an object URL
\* resolves or rejects, response.blob() resolves, and analyzeAudio's timer
\* fires after 2000 ms.
SpecAnalyzerFair ==
    /\ InitAnalyzer
    /\ [][NextAnalyzer]_vars
    /\ WF_vars(FetchResolves \/ FetchRejects)
    /\ WF_vars(BlobResolves)
    /\ WF_vars(AnalyzeAudioResolves)

---------------------------------------------------------------------------
(* Properties of the numeric core, checked under SpecCore. *)

PitchCalled == pitch.kind # "NotCalled"
TempoCalled == tempo.kind # "NotCalled"

IsSilent(x) == \A k \in 1..Len(x) : x[k] = 0

\* C1: when estimateTempo finds fewer than 2 onsets it returns a finite BPM
\* (or reports the tempo as undetermined), never Infinity or NaN.
C1_FewOnsetsFiniteTempo ==
    (TempoCalled /\ Len(onsets) < 2) => tempo.kind \in {"finite", "undetermined"}

\* C2: for an all-zero buffer detectPitch returns the sentinel for an
\* undetected pitch, 0 or undefined, and no positive frequency.
C2_SilentPitchIsSentinel ==
    (PitchCalled /\ IsSilent(audioBuffer.samples)) =>
        (pitch.kind = "undefined" \/ (pitch.kind = "finite" /\ pitch.value = 0))

\* C3: the value estimateTempo returns is an integer from 60 to 240.
C3_TempoInRange ==
    TempoCalled => (tempo.kind = "finite" /\ tempo.value >= 60 /\ tempo.value <= 240)

CeilDiv(a, b) == (a + b - 1) \div b

C6_OnsetsIncreasingInRange ==
    TempoCalled =>
        /\ \A k \in 1..Len(onsets) :
               onsets[k] >= 1 /\ onsets[k] <= Len(energyProfile) - 2
        /\ \A k \in 1..(Len(onsets) - 1) : onsets[k] < onsets[k + 1]

\* C6 witness: two or more onsets, the last one at the last index allowed.
C6_Witness ==
    /\ TempoCalled
    /\ Len(onsets) >= 2
    /\ onsets[Len(onsets)] = Len(energyProfile) - 2

\* C8: for a click train with clicks half a second apart estimateTempo
\* returns 120 BPM within 2 percent.
C8_ClickTrainTempo120 ==
    (TempoCalled /\ audioBuffer \in ClickTrains) =>
        (tempo.kind = "finite" /\ 50 * tempo.value >= 49 * 120 /\ 50 * tempo.value <= 51 * 120)

\* x lasts a second or more, repeats every P samples and is not constant
IsTone(x, sampleRate, P) ==
    /\ Len(x) >= sampleRate
    /\ \A k \in 1..(Len(x) - P) : x[k] = x[k + P]
    /\ \E k \in 1..Len(x) : x[k] # x[1]

\* tenths, a frequency in tenths of a hertz, is within 2 percent of
\* sampleRate / P, or is the k-th harmonic or subharmonic of it as the code
\* would round it
TonePitchOk(tenths, sampleRate, P) ==
    \/ /\ 5 * (tenths * P - 10 * sampleRate) <= sampleRate
       /\ 5 * (10 * sampleRate - tenths * P) <= sampleRate
    \/ \E k \in 1..Max(MaxLag(sampleRate), P) :
           \/ tenths = RoundDiv(10 * sampleRate * k, P)
           \/ tenths = RoundDiv(10 * sampleRate, P * k)

\* C9: for a second or more of a signal that repeats every P samples,
\* 2 <= P < maxLag - 1, detectPitch returns sampleRate / P within 2 percent, or a harmonic or
\* subharmonic of it.
C9_TonePitch ==
    PitchCalled =>
        \A P \in 2..(MaxLag(audioBuffer.sampleRate) - 2) :
            IsTone(audioBuffer.samples, audioBuffer.sampleRate, P) =>
                (pitch.kind = "finite" /\ TonePitchOk(pitch.value, audioBuffer.sampleRate, P))

\* v > mean(values) + 1.5 * stddev(values), with the variance as the mean of
\* the squared deviations from the mean.  With n the number of values, S
\* their sum and d(x) = n * x - S (n times the deviation of x), the
\* variance is (sum of d(values[k])^2) / n^3, so the comparison is
\* d(v) > 0 and 4 * d(v)^2 > 9 * (sum of d(values[k])^2) / n; the sum is a
\* multiple of n.
AboveMeanPlusStdDevs(values, v) ==
    LET n == Len(values)
        S == SumOf(values)
        squares == SumOf([k \in 1..n |-> (n * values[k] - S) * (n * values[k] - S)])
    IN  /\ n * v - S > 0
        /\ 4 * (n * v - S) * (n * v - S) > 9 * (squares \div n)

\* the indices estimateTempo reported as onsets
OnsetSet == { onsets[k] : k \in 1..Len(onsets) }

\* C15: the 0-based index i of the energy profile is an onset if and only
\* if 1 <= i <= length - 2, profile[i] > mean + 1.5 * stddev,
\* profile[i] > profile[i - 1] and profile[i] >= profile[i + 1]; an index
\* whose left neighbour has the same value (inside a plateau) is no onset.
C15_OnsetIff ==
    TempoCalled =>
        LET values == Values(energyProfile)
        IN  /\ \A i \in 0..(Len(values) - 1) :
                   i \in OnsetSet <=>
                       /\ 1 <= i /\ i <= Len(values) - 2
                       /\ AboveMeanPlusStdDevs(values, At(values, i))
                       /\ At(values, i) > At(values, i - 1)
                       /\ At(values, i) >= At(values, i + 1)
            /\ OnsetSet \subseteq 0..(Len(values) - 1)
            /\ \A i \in OnsetSet : At(values, i - 1) # At(values, i)

\* C15 witness: an onset at the first index of a plateau, the next index of
\* the plateau being above the threshold as well.
C15_Witness ==
    /\ TempoCalled
    /\ \E i \in OnsetSet :
           /\ i + 2 <= Len(energyProfile) - 1
           /\ At(Values(energyProfile), i + 1) = At(Values(energyProfile), i)
           /\ (i + 1) \notin OnsetSet


\* estimateTempo has returned and its locals are known
TempoReturned == TempoCalled /\ tempoLocals.kind = "locals"

\* C16: among the histogram buckets with the highest count the winner is
\* the one the scan meets first (the scan goes through the buckets in
\* ascending order): a bucket met later with the same count does not
\* replace it.
C16_TieFirstSeenWins ==
    (TempoReturned /\ DOMAIN tempoLocals.histogramBins # {}) =>
        LET bins == tempoLocals.histogramBins
            winner == tempoLocals.mostCommonInterval
        IN  /\ winner \in DOMAIN bins
            /\ \A b \in DOMAIN bins :
                   /\ bins[b] <= bins[winner]
                   /\ bins[b] = bins[winner] => winner <= b

\* C16 witness: two buckets tie for the highest count, the winner is the
\* one met first in the scan, and the other one is the bucket of the first
\* interval.
C16_Witness ==
    /\ TempoReturned
    /\ Len(tempoLocals.intervals) >= 2
    /\ \E b \in DOMAIN tempoLocals.histogramBins :
           /\ b > tempoLocals.mostCommonInterval
           /\ tempoLocals.histogramBins[b] =
                  tempoLocals.histogramBins[tempoLocals.mostCommonInterval]
           /\ b = NormalizedInterval(tempoLocals.intervals[1])


\* detectPitch has returned; lag L has the correlation At(Corr, L)
Corr == pitchLocals.correlations
LastLag == Len(pitchLocals.correlations) - 1

\* detectPitch has returned for a second or more of audio at a sample rate
\* that gives three lags or more
PitchOfASecond ==
    /\ PitchCalled
    /\ Len(audioBuffer.samples) >= audioBuffer.sampleRate
    /\ Len(pitchLocals.correlations) >= 3

\* C17: for a second or more of audio, the first-drop index is reached from lag 0 by walking on while the
\* correlation does not increase, and it is the first lag at which the
\* correlation increases (the lag before the increase, or the lag that is
\* greater than the one before it), or the last lag if there is no
\* increase.
C17_FirstDropAtFirstIncrease ==
    PitchOfASecond =>
        LET fd == pitchLocals.firstDropIndex
            Increases(L) == L < LastLag /\ At(Corr, L + 1) > At(Corr, L)
        IN  \/ /\ \A L \in 0..(fd - 1) : ~Increases(L)
               /\ Increases(fd) \/ fd = LastLag
            \/ /\ fd >= 1
               /\ \A L \in 0..(fd - 2) : ~Increases(L)
               /\ Increases(fd - 1)

\* C18: for a second or more of audio, the peak lag has the greatest correlation among the lags from the
\* first-drop index to maxLag - 1, the last one included, where
\* maxLag = floor(sampleRate / 60) is the number of correlations.
C18_PeakIsMaxFromFirstDrop ==
    PitchOfASecond =>
        /\ Len(pitchLocals.correlations) = audioBuffer.sampleRate \div 60
        /\ pitchLocals.peakIndex \in pitchLocals.firstDropIndex..LastLag
        /\ \A L \in pitchLocals.firstDropIndex..LastLag :
               At(Corr, L) <= At(Corr, pitchLocals.peakIndex)


\* C19: the range correction is applied once: a raw bpm b > 240 gives
\* round(b / 2) (Infinity stays Infinity), b < 60 gives round(2 * b), and b
\* from 60 to 240 gives round(b); nothing is halved twice, doubled twice,
\* or halved and doubled.
C19_CorrectionOnce ==
    TempoReturned =>
        /\ tempoLocals.bpm.kind = "Infinity" => tempo.kind = "Infinity"
        /\ tempoLocals.bpm.kind = "finite" =>
               LET num == tempoLocals.bpm.num
                   den == tempoLocals.bpm.den
               IN  /\ tempo.kind = "finite"
                   /\ num > 240 * den => tempo.value = RoundDiv(num, 2 * den)
                   /\ num < 60 * den => tempo.value = RoundDiv(2 * num, den)
                   /\ (60 * den <= num /\ num <= 240 * den) =>
                          tempo.value = RoundDiv(num, den)

\* C19 witness: a raw bpm above 480, halved once and returned above 240.
C19_Witness ==
    /\ TempoReturned
    /\ tempoLocals.bpm.kind = "finite"
    /\ tempoLocals.bpm.num > 480 * tempoLocals.bpm.den
    /\ tempo.value > 240

\* the sum of the counts of the buckets
RECURSIVE SumCounts(_, _)
SumCounts(bins, keys) ==
    IF keys = {} THEN 0
    ELSE LET b == CHOOSE c \in keys : TRUE
         IN  bins[b] + SumCounts(bins, keys \ {b})

\* The intervals are the differences of consecutive onsets; an even interval
\* k is counted in bucket k and an odd one in bucket k + 1, no bucket counts
\* anything else, and the counts sum to total.
BucketsOfIntervals(total) ==
    LET iv == tempoLocals.intervals
        bins == tempoLocals.histogramBins
        Bucket(k) == IF k % 2 = 0 THEN k ELSE k + 1
    IN  /\ \A j \in 1..Len(iv) : iv[j] = onsets[j + 1] - onsets[j]
        /\ \A j \in 1..Len(iv) : Bucket(iv[j]) \in DOMAIN bins
        /\ \A b \in DOMAIN bins :
               bins[b] = Cardinality({ j \in 1..Len(iv) : Bucket(iv[j]) = b })
        /\ Len(iv) = total
        /\ SumCounts(bins, DOMAIN bins) = total

\* C20 as stated: each interval onset[j] - onset[j-1] is counted in the
\* nearest multiple of 2, an odd one in the bucket above it, and the bucket
\* counts sum to the number of onsets minus 1.
C20_SumIsOnsetsMinusOne ==
    TempoReturned => BucketsOfIntervals(Len(onsets) - 1)

\* C20: each interval onset[j] - onset[j-1] is counted in the nearest
\* multiple of 2, an odd one in the bucket above it, and the bucket counts
\* sum to the number of intervals: the number of onsets minus 1 when there
\* is an onset, and 0 when there is none.
C20_BucketsOfIntervals ==
    TempoReturned =>
        BucketsOfIntervals(IF Len(onsets) >= 1 THEN Len(onsets) - 1 ELSE 0)

\* C20 witness: three intervals, odd and even ones among them, in more than
\* one bucket.
C20_Witness ==
    /\ TempoReturned
    /\ Len(tempoLocals.intervals) = 3
    /\ \E j \in 1..3 : tempoLocals.intervals[j] % 2 = 1
    /\ \E j \in 1..3 : tempoLocals.intervals[j] % 2 = 0
    /\ Cardinality(DOMAIN tempoLocals.histogramBins) >= 2


\* C24: no two onsets are at adjacent indices of the energy profile, so
\* every interval between consecutive onsets is at least 2 and every
\* histogram bucket is an even number that is at least 2; the winning
\* interval is 0 exactly when fewer than 2 onsets were found.
C24_NoAdjacentOnsets ==
    TempoReturned =>
        /\ \A j \in 1..(Len(onsets) - 1) : onsets[j + 1] - onsets[j] >= 2
        /\ \A j \in 1..Len(tempoLocals.intervals) : tempoLocals.intervals[j] >= 2
        /\ \A b \in DOMAIN tempoLocals.histogramBins : b % 2 = 0 /\ b >= 2
        /\ tempoLocals.mostCommonInterval = 0 <=> Len(onsets) < 2

\* C24 witness: the window after an onset is as loud as the onset's and is
\* not an onset, another onset is 2 windows after an onset, and the winning
\* interval is 2.
C24_Witness ==
    /\ TempoReturned
    /\ Len(onsets) >= 2
    /\ \E j \in 1..(Len(onsets) - 1) : onsets[j + 1] - onsets[j] = 2
    /\ \E j \in 1..Len(onsets) :
           /\ At(energyProfile, onsets[j]) = At(energyProfile, onsets[j] + 1)
           /\ \A k \in 1..Len(onsets) : onsets[k] # onsets[j] + 1
    /\ tempoLocals.mostCommonInterval = 2

---------------------------------------------------------------------------
(* Properties of analyzeAudio, checked under Spec. *)

Resolved == analysisResults.outcome = "resolved"

\* C4: analyzeAudio rejects a malformed buffer (no samples, or a sample rate
\* that is not positive) with an error; it does not resolve with a result.
C4_MalformedRejected ==
    (analysisResults.outcome \notin {"NotCalled", "pending"} /\ IsMalformed(audioBlob)) =>
        analysisResults.outcome = "rejected"

\* C10: in every result of analyzeAudio,
\* dynamics.range.min <= dynamics.average <= dynamics.range.max.
C10_DynamicsOrdered ==
    Resolved =>
        /\ analysisResults.dynamics.range.min <= analysisResults.dynamics.average
        /\ analysisResults.dynamics.average <= analysisResults.dynamics.range.max

\* C10 witness: a result with the lowest average that can be drawn, where
\* the lower clamp is reached.
C10_Witness ==
    /\ Resolved
    /\ analysisResults.dynamics.average = 30
    /\ analysisResults.dynamics.range.min = 10

\* C11: the tempo and pitch fields of the record analyzeAudio resolves to
\* are the values estimateTempo and detectPitch compute for the audio that
\* was submitted (the pitch in hertz, detectPitch's value in tenths).
C11_ResultFromEstimators ==
    (Resolved /\ ~IsMalformed(audioBlob)) =>
        /\ Finite(analysisResults.tempo) = estimateTempo(audioBlob).tempo
        /\ Finite(10 * analysisResults.pitch.average) = detectPitch(audioBlob)

---------------------------------------------------------------------------
(* Properties of utils/storage.ts, checked under SpecStorage. *)

\* the number of stored recordings with the id
CountOf(item, id) ==
    Cardinality({ i \in 1..Len(getAllRecordings(item)) : getAllRecordings(item)[i].id = id })

\* C12: when saveRecording(r, blob) resolves with an id, getRecordingById(id)
\* resolves to a recording with that id and with the name and the date of r,
\* getAllRecordings has exactly one entry with that id, and an id inside r
\* is not the one kept.
C12_SaveGetRoundTrip ==
    [][\A a \in SaveArguments, suffix \in IdSuffixes :
          saveRecording(a.recording, a.audio, suffix) =>
              LET id == GeneratedId(now, suffix)
                  got == getRecordingById(localStorage', id)
              IN  /\ got # null
                  /\ got.id = id
                  /\ got.name = a.recording.name
                  /\ got.date = a.recording.date
                  /\ CountOf(localStorage', id) = 1
                  /\ "id" \in DOMAIN a.recording => id # a.recording.id]_vars

\* recordings[i] for the recordings without the id, in their order: the
\* position of entry i once the entries with the id before it are gone
PositionWithout(recordings, id, i) ==
    i - Cardinality({ j \in 1..(i - 1) : recordings[j].id = id })

AllUpdates == Updates \cup { [analysisResults |-> results] : results \in Results }

\* C14: updateRecording(id, updates) changes the id of no stored recording,
\* also when updates has an id of its own, and changes no recording other
\* than one with the id: the others, the length and the order stay.
C14_UpdateKeepsIdsAndOthers ==
    [][\A id \in Ids, updates \in AllUpdates :
          updateRecording(id, updates) =>
              LET before == getAllRecordings(localStorage)
                  after == getAllRecordings(localStorage')
              IN  /\ Len(after) = Len(before)
                  /\ \A i \in 1..Len(before) :
                         /\ after[i].id = before[i].id
                         /\ before[i].id # id => after[i] = before[i]]_vars

\* C14 witness: two recordings are stored and updateRecording has renamed
\* one of them with updates that carry another id.
C14_Witness ==
    /\ Len(getAllRecordings(localStorage)) = 2
    /\ \E i, j \in 1..2 :
           /\ getAllRecordings(localStorage)[i].name = "renamed"
           /\ getAllRecordings(localStorage)[i].id # Uuid
           /\ getAllRecordings(localStorage)[j].name # "renamed"

\* C21: no recording in the item stored under the key has a blob field,
\* whatever saveRecording, updateRecording and deleteRecording calls were
\* made.
C21_NoBlobPersisted ==
    \A i \in 1..Len(Parsed(localStorage)) : "blob" \notin DOMAIN Parsed(localStorage)[i]

\* C21 witness: two recordings are stored that had a blob in memory, one
\* given as the audioBlob argument (it has the object URL) and one inside
\* the recording that was saved.
C21_Witness ==
    /\ Len(Parsed(localStorage)) = 2
    /\ \E i, j \in 1..2 :
           /\ "url" \in DOMAIN Parsed(localStorage)[i]
           /\ Parsed(localStorage)[j].name = "take 2"
           /\ \E a \in SaveArguments :
                  a.recording.name = "take 2" /\ "blob" \in DOMAIN a.recording

---------------------------------------------------------------------------
(* Properties of the Analyzer, checked under SpecAnalyzer. *)

\* C22: whenever the Analyzer's analysisResults is not null and a recording
\* is selected, the results are those of analysing that recording, also
\* when it was selected while the analysis of another one was under way.
C22_ResultsOfSelected ==
    (analyzer.analysisResults # null /\ analyzer.selectedRecording # null) =>
        analyzer.analysed = analyzer.selectedRecording.id

\* C23: whenever handleAnalyze has set isAnalyzing to true, it is set back
\* to false later, whichever way handleAnalyze ends; checked under
\* SpecAnalyzerFair.
C23_AnalyzingEnds ==
    analyzer.isAnalyzing ~> ~analyzer.isAnalyzing

\* C23 witness: handleAnalyze has ended on the path where the results
\* could not be persisted (they are set and the error is shown), and
\* isAnalyzing is false again.
C23_Witness ==
    /\ analyzer # NotMounted
    /\ ~analyzer.isAnalyzing
    /\ handleAnalyzeCall = Idle
    /\ analyzer.analysisResults # null
    /\ analyzer.error = ErrorMessage("Failed to analyze audio. Please try again.")

---------------------------------------------------------------------------
(* Properties of detectPitch and of estimateTempo's energy loop for every  *)
(* buffer and every sample rate, checked under SpecAnyRate.               *)

\* C25: the lag detectPitch divides the sample rate by, peakIndex, is at
\* least 1 for every buffer and every sample rate, so the value returned is
\* a finite number and not the result of a division by zero.
C25_PeakIndexPositive ==
    pitch # NotCalled =>
        /\ pitchLocals.peakIndex >= 1
        /\ pitch.kind = "finite"
        /\ pitch = Finite(RoundDiv(10 * audioBuffer.sampleRate, pitchLocals.peakIndex))

\* C25 witness: detectPitch has returned for the empty buffer at a sample
\* rate below 60, where there is no correlation at all.
C25_Witness ==
    /\ pitch # NotCalled
    /\ audioBuffer.samples = <<>>
    /\ audioBuffer.sampleRate < 60
    /\ pitchLocals.correlations = <<>>
    /\ pitchLocals.peakIndex = 1

\* C26: estimateTempo's energy loop ends for every buffer that is not empty
\* and every positive sample rate: each iteration moves the window start
\* forward, so that fewer samples are left ahead of it.
C26_EnergyLoopAdvances ==
    [][EnergyLoopStep => tempoLocals'.i > tempoLocals.i]_vars

---------------------------------------------------------------------------
(* Properties of storage calls that are not awaited, checked under         *)
(* SpecCalls.                                                              *)

\* C27: whenever no executor is running, the stored list is the list that
\* the calls made so far give when they are applied one after another in
\* the order of the calls: no call's write is lost.
C27_NoLostUpdate ==
    page.running = <<>> => getAllRecordings(localStorage) = page.sequential

\* C27 witness: two saves made in the same millisecond, neither awaited,
\* are both stored, and an update made after them is stored as well.
C27_Witness ==
    /\ page.running = <<>>
    /\ Len(getAllRecordings(localStorage)) = 2
    /\ getAllRecordings(localStorage)[1].id.time = getAllRecordings(localStorage)[2].id.time
    /\ \E i \in 1..2 : "analysisResults" \in DOMAIN getAllRecordings(localStorage)[i]

===========================================================================
